---- MODULE Spec2Model ----
(***************************************************************************)
(* The NVMe driver of the kernel: the queue-pair table of NvmeDriver, the  *)
(* staging of read/write buffers, and the allocation table of              *)
(* NvmeAllocator (src/src/drivers/nvme.rs); and the buffering of the       *)
(* console (src/src/console.rs).                                           *)
(*                                                                         *)
(* Every driver operation is one action: the system calls run it with the  *)
(* driver mutex held (driver.lock() in src/src/syscalls/nvme.rs), so the   *)
(* operations of one driver never overlap.  The Controller (the nvme      *)
(* crate) is an external collaborator: each of its requests succeeds or    *)
(* fails nondeterministically, and its calls into NvmeAllocator are the    *)
(* actions allocate and deallocate, taken in any order.                    *)
(*                                                                         *)
(* Spec      the operations of a registered driver and the allocator calls *)
(* SpecSys   the system calls from boot on, NvmeDriver::init included      *)
(* SpecData  the queue-pair operations with buffers of every content       *)
(* SpecLocks the system calls of several tasks, split at the points where  *)
(*           a mutex is taken or dropped or the Controller is waited for   *)
(* SpecConsole the writes and flushes of the console                       *)
(***************************************************************************)
EXTENDS Integers, Sequences, FiniteSets, TLC

\* ----------------------------------------------------------------- bounds
\* Number of queue-pair handles the Controller hands out in one behaviour.
MaxHandles == 3
\* identify_namespaces returns between 0 and MaxNamespaces namespaces, and the
\* namespace indices a caller may pass are 0..MaxNamespaces.
MaxNamespaces == 1
\* controller_data().max_transfer_size of the modelled device.
MaxTransferSize == 1
\* Number of Console::write calls in one behaviour.
MaxWrites == 3
\* The largest size the Controller asks NvmeAllocator for.
MaxSize == 2
\* Device memory consists of the addresses 1..MaxAddr.
MaxAddr == 2
\* The tasks that make system calls at the same time are 1..MaxCallers.
MaxCallers == 2

\* -------------------------------------------------------------- constants
MAX_NUMBER_OF_QUEUE_PAIRS == 2

BasePageSize_SIZE == 4096

Ok == 0
ZeroPointerParameter == 1
DeviceDoesNotExist == 2
CouldNotIdentifyNamespaces == 3
NamespaceDoesNotExist == 4
MaxNumberOfQueuesReached == 5
CouldNotCreateIoQueuePair == 6
CouldNotDeleteIoQueuePair == 7
CouldNotFindIoQueuePair == 8
BufferTooBig == 9
CouldNotAllocateMemory == 10
CouldNotReadFromIoQueuePair == 11
CouldNotWriteToIoQueuePair == 12

\* Option::None of an identifier, an address or a handle.
None == -1

\* ------------------------------------------------------------------ state
VARIABLES
    io_queue_pairs,   \* NvmeDriver.io_queue_pairs: IoQueuePairId -> handle
    next_handle,      \* the number of queue pairs the Controller has built
    allocations,      \* NvmeAllocator.allocations: address -> Layout
    device_memory,    \* DeviceAlloc: live address -> [layout, owner]
    disk,             \* the namespace: logical block address -> block
    halted,           \* a panic (expect) has stopped the kernel
    nvme_driver,      \* what get_nvme_driver() finds: "some" once init returned Ok
    callers,          \* task -> the system call it is in and how far it has got
    driver_mutex,     \* the task holding the mutex around NvmeDriver, 0 if none
    registry_mutex,   \* the task holding NvmeDriver.io_queue_pairs' mutex, 0 if none
    allocations_mutex, \* the task holding NvmeAllocator.allocations' mutex, 0 if none
    console,          \* Console: buffer, and the bytes its device was given
    console_written,  \* the buffers Console::write was called with, in order
    last,             \* the call that was made last, with what it did
    scenario,         \* progress of the create/create/create/delete/create run
    reuse_run         \* progress of the allocate/deallocate/allocate/deallocate run

locks == <<callers, driver_mutex, registry_mutex, allocations_mutex>>

vars == <<io_queue_pairs, next_handle, allocations, device_memory, disk,
          halted, nvme_driver, callers, driver_mutex, registry_mutex,
          allocations_mutex, console, console_written, last, scenario,
          reuse_run>>

console_vars == <<console, console_written>>

\* The inputs of the calls.  An identifier is a key the table can hold or
\* MAX_NUMBER_OF_QUEUE_PAIRS, which it never holds; a namespace index is
\* below the number of namespaces identified or equal to it; a buffer is
\* empty, of the largest length accepted, or one byte longer.
IoQueuePairIds == 0..MAX_NUMBER_OF_QUEUE_PAIRS
NamespaceIndices == 0..MaxNamespaces
EntryCounts == {1}
BufferLens == {0, MaxTransferSize, MaxTransferSize + 1}
LogicalBlockAddresses == {0, 1}
Sizes == {1, MaxSize}
Addrs == 1..MaxAddr

\* The buffers of n bytes whose bytes are in `values`.
Bytes(values, n) == [1..n -> values]

\* The caller's buffers: of every length of BufferLens and zero-filled; or
\* of the largest length accepted with every content of zeros and ones, and
\* of the other lengths filled with ones.
ZeroBuffers == UNION {Bytes({0}, n) : n \in BufferLens}

DataAddresses == {0}

DataBuffers == Bytes({0, 1}, MaxTransferSize) \cup UNION {Bytes({1}, n) : n \in BufferLens}

\* --------------------------------------------------------------- hash maps
EmptyMap == [k \in {} |-> None]

contains_key(map, k) == k \in DOMAIN map

insert(map, k, v) == [x \in (DOMAIN map) \cup {k} |-> IF x = k THEN v ELSE map[x]]

remove(map, k) == [x \in (DOMAIN map) \ {k} |-> map[x]]

len(map) == Cardinality(DOMAIN map)

\* ----------------------------------------------------------------- layout
Layout(size, align) == [size |-> size, align |-> align]

NoLayout == Layout(0, 0)

\* ------------------------------------------------------------- call record
\* What the last call was and what it did: the request, its result, the
\* queue-pair table before it, the Controller requests it issued, the staging
\* buffers it obtained, the memory it released, the caller's buffer when the
\* call was made (buffer) and when it returned (after), and the bytes of the
\* staging buffer the Controller was given (sent); the system call that
\* made it (syscall), what the system call returned (sys) and what it stored
\* through its result pointer (result).  op is "none" when the system call
\* returned before it reached the driver.
NoRelease == [address |-> None, layout |-> NoLayout, obtained |-> NoLayout]

NoCall ==
    [op |-> "none", arg |-> None, len |-> 0, res |-> Ok, ret |-> None,
     before |-> EmptyMap, ctrl |-> <<>>, staged |-> {}, freed |-> NoRelease,
     buffer |-> <<>>, sent |-> <<>>, after |-> <<>>,
     syscall |-> "none", result_is_null |-> FALSE, sys |-> 0, result |-> None]

\* A request to the Controller and whether the Controller accepted it.
Request(req, a, b, ok) == [req |-> req, a |-> a, b |-> b, ok |-> ok]

Requests(call) == {call.ctrl[i].req : i \in DOMAIN call.ctrl}

\* ------------------------------------------------------------- Controller
\* identify_namespaces(0): an error, or the list of the namespaces 0..count-1.
IdentifyOutcomes ==
    {[ok |-> FALSE, count |-> 0]} \cup {[ok |-> TRUE, count |-> n] : n \in 0..MaxNamespaces}

\* namespaces.get(namespace_index) is Some exactly below the list's length.
get_namespace(nss, namespace_index) ==
    IF namespace_index < nss.count THEN namespace_index ELSE None

\* The geometry identify_namespaces reports for the namespace at an index
\* of its list.
namespace_at(namespace_index) ==
    [block_count |-> 8 * (namespace_index + 1), block_size |-> 512]

\* controller.controller_data() of the modelled device.
controller_data == [max_transfer_size |-> MaxTransferSize, max_queue_entries |-> 64]

\* The namespace stores and returns bytes faithfully.  A block is
\* MaxTransferSize bytes long, so a transfer stays within the block it
\* addresses; a new namespace holds zeros.
EmptyDisk == [lba \in LogicalBlockAddresses |-> [i \in 1..MaxTransferSize |-> 0]]

\* io_queue_pair.write(pointer, length, lba): the bytes at `pointer` replace
\* the first `length` bytes of the block, up to the end of the block.
controller_write(blocks, logical_block_address, bytes) ==
    [blocks EXCEPT ![logical_block_address] =
        [i \in 1..MaxTransferSize |-> IF i <= Len(bytes) THEN bytes[i] ELSE @[i]]]

\* io_queue_pair.read(pointer, length, lba): the first `length` bytes of the
\* block are stored at `pointer`.  A transfer moves at most MaxTransferSize
\* bytes: what a longer one would read beyond them is zeros.
controller_read(blocks, logical_block_address, length) ==
    [i \in 1..length |->
        IF i <= MaxTransferSize THEN blocks[logical_block_address][i] ELSE 0]

\* ----------------------------------------------------------------- queries
\* The query that asks the Controller again when the identification failed.
get_number_of_namespaces_outcome_retrying(nss) ==
    LET identify == Request("identify_namespaces", 0, IF nss.ok THEN nss.count ELSE None, nss.ok)
    IN  IF ~nss.ok
            THEN [res |-> CouldNotIdentifyNamespaces, ret |-> None,
                  ctrl |-> <<identify, identify>>]
        ELSE [res |-> Ok, ret |-> nss.count, ctrl |-> <<identify>>]

\* get_number_of_namespaces: the length of the list identify_namespaces(0)
\* returns.
get_number_of_namespaces_outcome(nss) ==
    LET identify == Request("identify_namespaces", 0, IF nss.ok THEN nss.count ELSE None, nss.ok)
    IN  IF ~nss.ok
            THEN [res |-> CouldNotIdentifyNamespaces, ret |-> None, ctrl |-> <<identify>>]
        ELSE [res |-> Ok, ret |-> nss.count, ctrl |-> <<identify>>]

\* The query that accepts the index one past the end of the list.
get_size_of_namespace_outcome_past_end(nss, namespace_index) ==
    LET identify == Request("identify_namespaces", 0, IF nss.ok THEN nss.count ELSE None, nss.ok)
        namespace == namespace_at(namespace_index)
    IN  IF ~nss.ok
            THEN [res |-> CouldNotIdentifyNamespaces, ret |-> None, ctrl |-> <<identify>>]
        ELSE IF namespace_index > nss.count
            THEN [res |-> NamespaceDoesNotExist, ret |-> None, ctrl |-> <<identify>>]
        ELSE [res |-> Ok, ret |-> namespace.block_count * namespace.block_size,
              ctrl |-> <<identify>>]

\* get_size_of_namespace: identify_namespaces(0), namespaces.get(index), and
\* block_count() * block_size() of the namespace found.  (The product is a
\* u64; the geometry modelled is far from its range.)
get_size_of_namespace_outcome(nss, namespace_index) ==
    LET identify == Request("identify_namespaces", 0, IF nss.ok THEN nss.count ELSE None, nss.ok)
        namespace == namespace_at(namespace_index)
    IN  IF ~nss.ok
            THEN [res |-> CouldNotIdentifyNamespaces, ret |-> None, ctrl |-> <<identify>>]
        ELSE IF get_namespace(nss, namespace_index) = None
            THEN [res |-> NamespaceDoesNotExist, ret |-> None, ctrl |-> <<identify>>]
        ELSE [res |-> Ok, ret |-> namespace.block_count * namespace.block_size,
              ctrl |-> <<identify>>]

\* ------------------------------------------------------ create_io_queue_pair
\* The scan of (0..MAX_NUMBER_OF_QUEUE_PAIRS).for_each: the closure's return
\* ends one iteration, not the loop, so every free identifier is assigned to
\* index_option in turn.
RECURSIVE scan_from(_, _, _)
scan_from(table, i, index_option) ==
    IF i = MAX_NUMBER_OF_QUEUE_PAIRS THEN index_option
    ELSE scan_from(table, i + 1,
                   IF ~contains_key(table, i) THEN i ELSE index_option)

\* The scan without its contains_key test: every identifier is assigned to
\* index_option in turn, whether it is a key or not.
index_scan_unchecked(table) == MAX_NUMBER_OF_QUEUE_PAIRS - 1

index_scan(table) == scan_from(table, 0, None)

\* The capacity check off by one: a full table passes it.
registry_full_above(table) == len(table) > MAX_NUMBER_OF_QUEUE_PAIRS

registry_full(table) == len(table) = MAX_NUMBER_OF_QUEUE_PAIRS

\* The create that picks and reserves its identifier before it asks the
\* Controller, and keeps the reservation when the Controller rejects.
create_outcome_reserving(table, nss, namespace_index, number_of_entries, ctrl_ok, handle) ==
    LET identify == Request("identify_namespaces", 0, IF nss.ok THEN nss.count ELSE None, nss.ok)
        create == Request("create_io_queue_pair", namespace_index, number_of_entries, ctrl_ok)
        namespace == get_namespace(nss, namespace_index)
        index == index_scan(table)
        fail(res, ctrl) == [res |-> res, ret |-> None, table |-> table,
                            ctrl |-> ctrl, created |-> FALSE]
    IN  IF ~nss.ok THEN fail(CouldNotIdentifyNamespaces, <<identify>>)
        ELSE IF namespace = None THEN fail(NamespaceDoesNotExist, <<identify>>)
        ELSE IF registry_full(table)
            THEN fail(MaxNumberOfQueuesReached, <<identify>>)
        ELSE IF ~ctrl_ok
            THEN [res |-> CouldNotCreateIoQueuePair, ret |-> None,
                  table |-> insert(table, index, None),
                  ctrl |-> <<identify, create>>, created |-> FALSE]
        ELSE IF index = None
            THEN [res |-> MaxNumberOfQueuesReached, ret |-> None, table |-> table,
                  ctrl |-> <<identify, create>>, created |-> TRUE]
        ELSE [res |-> Ok, ret |-> index,
              table |-> insert(table, index, handle),
              ctrl |-> <<identify, create>>, created |-> TRUE]

\* The outcome of one call on the queue-pair table `table`: the result, the
\* identifier returned, the table afterwards, the Controller requests issued.
create_outcome(table, nss, namespace_index, number_of_entries, ctrl_ok, handle) ==
    LET identify == Request("identify_namespaces", 0, IF nss.ok THEN nss.count ELSE None, nss.ok)
        create == Request("create_io_queue_pair", namespace_index, number_of_entries, ctrl_ok)
        namespace == get_namespace(nss, namespace_index)
        index == index_scan(table)
        fail(res, ctrl) == [res |-> res, ret |-> None, table |-> table,
                            ctrl |-> ctrl, created |-> FALSE]
    IN  IF ~nss.ok THEN fail(CouldNotIdentifyNamespaces, <<identify>>)
        ELSE IF namespace = None THEN fail(NamespaceDoesNotExist, <<identify>>)
        ELSE IF registry_full(table)
            THEN fail(MaxNumberOfQueuesReached, <<identify>>)
        ELSE IF ~ctrl_ok THEN fail(CouldNotCreateIoQueuePair, <<identify, create>>)
        ELSE IF index = None
            THEN [res |-> MaxNumberOfQueuesReached, ret |-> None, table |-> table,
                  ctrl |-> <<identify, create>>, created |-> TRUE]
        ELSE [res |-> Ok, ret |-> index,
              table |-> insert(table, index, handle),
              ctrl |-> <<identify, create>>, created |-> TRUE]

\* ------------------------------------------------------ delete_io_queue_pair
\* The delete that takes a missing entry for a deleted one.
delete_outcome_ignoring_absent(table, io_queue_pair_id, ctrl_ok) ==
    IF ~contains_key(table, io_queue_pair_id)
        THEN [res |-> Ok, table |-> table, ctrl |-> <<>>]
    ELSE [res |-> IF ctrl_ok THEN Ok ELSE CouldNotDeleteIoQueuePair,
          table |-> remove(table, io_queue_pair_id),
          ctrl |-> <<Request("delete_io_queue_pair", table[io_queue_pair_id], 0, ctrl_ok)>>]

\* The delete that hands the handle to the Controller and leaves the entry
\* in the table.
delete_outcome_keeping_entry(table, io_queue_pair_id, ctrl_ok) ==
    IF ~contains_key(table, io_queue_pair_id)
        THEN [res |-> CouldNotFindIoQueuePair, table |-> table, ctrl |-> <<>>]
    ELSE [res |-> IF ctrl_ok THEN Ok ELSE CouldNotDeleteIoQueuePair,
          table |-> table,
          ctrl |-> <<Request("delete_io_queue_pair", table[io_queue_pair_id], 0, ctrl_ok)>>]

\* The delete that puts the entry back when the teardown fails.
delete_outcome_restoring_on_failure(table, io_queue_pair_id, ctrl_ok) ==
    IF ~contains_key(table, io_queue_pair_id)
        THEN [res |-> CouldNotFindIoQueuePair, table |-> table, ctrl |-> <<>>]
    ELSE [res |-> IF ctrl_ok THEN Ok ELSE CouldNotDeleteIoQueuePair,
          table |-> IF ctrl_ok THEN remove(table, io_queue_pair_id) ELSE table,
          ctrl |-> <<Request("delete_io_queue_pair", table[io_queue_pair_id], 0, ctrl_ok)>>]

\* The delete that drops the Controller's teardown failure.
delete_outcome_dropping_failure(table, io_queue_pair_id, ctrl_ok) ==
    IF ~contains_key(table, io_queue_pair_id)
        THEN [res |-> CouldNotFindIoQueuePair, table |-> table, ctrl |-> <<>>]
    ELSE [res |-> Ok,
          table |-> remove(table, io_queue_pair_id),
          ctrl |-> <<Request("delete_io_queue_pair", table[io_queue_pair_id], 0, ctrl_ok)>>]

delete_outcome(table, io_queue_pair_id, ctrl_ok) ==
    IF ~contains_key(table, io_queue_pair_id)
        THEN [res |-> CouldNotFindIoQueuePair, table |-> table, ctrl |-> <<>>]
    ELSE [res |-> IF ctrl_ok THEN Ok ELSE CouldNotDeleteIoQueuePair,
          table |-> remove(table, io_queue_pair_id),
          ctrl |-> <<Request("delete_io_queue_pair", table[io_queue_pair_id], 0, ctrl_ok)>>]

\* ------------------------------------------------------------- DeviceAlloc
\* DeviceAlloc.allocate fails, or returns an address that is not in use.
AllocError == None

DeviceAllocOutcomes(memory) == {AllocError} \cup (Addrs \ DOMAIN memory)

Block(layout, owner) == [layout |-> layout, owner |-> owner]

\* DeviceAlloc.deallocate gives the memory at `address` back.
device_deallocate(memory, address) == remove(memory, address)

StagingBuffers(memory) == {a \in DOMAIN memory : memory[a].owner = "staging"}

ControllerBuffers(memory) == {a \in DOMAIN memory : memory[a].owner = "nvme"}

\* ------------------------------------ read_from / write_to_io_queue_pair
\* The size check off by one: max_transfer_size + 1 bytes pass it.
buffer_too_big_above(buffer_len) == buffer_len > MaxTransferSize + 1

buffer_too_big(buffer_len) == buffer_len > MaxTransferSize

\* The read that obtains its staging buffer first and looks the identifier
\* up afterwards.
read_outcome_staging_first(table, io_queue_pair_id, buffer, logical_block_address, pointer, ctrl_ok, blocks) ==
    LET done(res, staged, ctrl, sent, after) ==
            [res |-> res, staged |-> staged, ctrl |-> ctrl, sent |-> sent,
             buffer |-> after]
        read == Request("read", table[io_queue_pair_id], logical_block_address, ctrl_ok)
        kernel_buffer == controller_read(blocks, logical_block_address, Len(buffer))
    IN  IF pointer = AllocError
            THEN done(CouldNotAllocateMemory, {}, <<>>, <<>>, buffer)
        ELSE IF ~contains_key(table, io_queue_pair_id)
            THEN done(CouldNotFindIoQueuePair, {pointer}, <<>>, <<>>, buffer)
        ELSE IF buffer_too_big(Len(buffer))
            THEN done(BufferTooBig, {pointer}, <<>>, <<>>, buffer)
        ELSE IF ~ctrl_ok
            THEN done(CouldNotReadFromIoQueuePair, {pointer}, <<read>>, <<>>, buffer)
        ELSE done(Ok, {pointer}, <<read>>, kernel_buffer,
                  [i \in 1..Len(buffer) |-> kernel_buffer[i]])

\* The read that copies the staging buffer into `buffer` whether the
\* Controller read succeeded or not: after a failure the caller gets the
\* zeros of a new staging buffer.
read_outcome_copying_always(table, io_queue_pair_id, buffer, logical_block_address, pointer, ctrl_ok, blocks) ==
    LET done(res, staged, ctrl, sent, after) ==
            [res |-> res, staged |-> staged, ctrl |-> ctrl, sent |-> sent,
             buffer |-> after]
        read == Request("read", table[io_queue_pair_id], logical_block_address, ctrl_ok)
        kernel_buffer == controller_read(blocks, logical_block_address, Len(buffer))
    IN  IF ~contains_key(table, io_queue_pair_id)
            THEN done(CouldNotFindIoQueuePair, {}, <<>>, <<>>, buffer)
        ELSE IF buffer_too_big(Len(buffer)) THEN done(BufferTooBig, {}, <<>>, <<>>, buffer)
        ELSE IF pointer = AllocError
            THEN done(CouldNotAllocateMemory, {}, <<>>, <<>>, buffer)
        ELSE IF ~ctrl_ok
            THEN done(CouldNotReadFromIoQueuePair, {pointer}, <<read>>, <<>>,
                      [i \in 1..Len(buffer) |-> 0])
        ELSE done(Ok, {pointer}, <<read>>, kernel_buffer,
                  [i \in 1..Len(buffer) |-> kernel_buffer[i]])

\* The outcome of a read into `buffer`: `pointer` is what
\* DeviceAlloc.allocate returns if it is asked, `blocks` what the namespace
\* holds.  The staging buffer is in `staged` when it was obtained; no path
\* gives it back.  The steps are in the order of the code: lookup, size
\* check, allocation, transfer into the staging buffer, copy of the staging
\* buffer into `buffer`.  `sent` is the staging buffer as the Controller
\* left it, `buffer` the caller's buffer when the call returns.
\* (Layout::from_size_align fails only for a length within a page of
\* isize::MAX, which no length up to MaxTransferSize + 1 is.)
read_outcome(table, io_queue_pair_id, buffer, logical_block_address, pointer, ctrl_ok, blocks) ==
    LET done(res, staged, ctrl, sent, after) ==
            [res |-> res, staged |-> staged, ctrl |-> ctrl, sent |-> sent,
             buffer |-> after]
        read == Request("read", table[io_queue_pair_id], logical_block_address, ctrl_ok)
        kernel_buffer == controller_read(blocks, logical_block_address, Len(buffer))
    IN  IF ~contains_key(table, io_queue_pair_id)
            THEN done(CouldNotFindIoQueuePair, {}, <<>>, <<>>, buffer)
        ELSE IF buffer_too_big(Len(buffer)) THEN done(BufferTooBig, {}, <<>>, <<>>, buffer)
        ELSE IF pointer = AllocError
            THEN done(CouldNotAllocateMemory, {}, <<>>, <<>>, buffer)
        ELSE IF ~ctrl_ok
            THEN done(CouldNotReadFromIoQueuePair, {pointer}, <<read>>, <<>>, buffer)
        ELSE done(Ok, {pointer}, <<read>>, kernel_buffer,
                  [i \in 1..Len(buffer) |-> kernel_buffer[i]])

\* The write that gives the Controller the staging buffer before the bytes
\* of `buffer` are copied into it: the Controller stores the zeros of a new
\* staging buffer.
write_outcome_unstaged(table, io_queue_pair_id, buffer, logical_block_address, pointer, ctrl_ok, blocks) ==
    LET done(res, staged, ctrl, sent, stored) ==
            [res |-> res, staged |-> staged, ctrl |-> ctrl, sent |-> sent,
             blocks |-> stored]
        write == Request("write", table[io_queue_pair_id], logical_block_address, ctrl_ok)
        kernel_buffer == [i \in 1..Len(buffer) |-> 0]
    IN  IF ~contains_key(table, io_queue_pair_id)
            THEN done(CouldNotFindIoQueuePair, {}, <<>>, <<>>, blocks)
        ELSE IF buffer_too_big(Len(buffer)) THEN done(BufferTooBig, {}, <<>>, <<>>, blocks)
        ELSE IF pointer = AllocError
            THEN done(CouldNotAllocateMemory, {}, <<>>, <<>>, blocks)
        ELSE IF ~ctrl_ok
            THEN done(CouldNotWriteToIoQueuePair, {pointer}, <<write>>, kernel_buffer, blocks)
        ELSE done(Ok, {pointer}, <<write>>, kernel_buffer,
                  controller_write(blocks, logical_block_address, kernel_buffer))

\* The outcome of a write of `buffer`: the bytes of `buffer` are copied into
\* the staging buffer, then the Controller is given the staging buffer
\* (`sent`); `blocks` is what the namespace holds when the call returns.
write_outcome(table, io_queue_pair_id, buffer, logical_block_address, pointer, ctrl_ok, blocks) ==
    LET done(res, staged, ctrl, sent, stored) ==
            [res |-> res, staged |-> staged, ctrl |-> ctrl, sent |-> sent,
             blocks |-> stored]
        write == Request("write", table[io_queue_pair_id], logical_block_address, ctrl_ok)
        kernel_buffer == [i \in 1..Len(buffer) |-> buffer[i]]
    IN  IF ~contains_key(table, io_queue_pair_id)
            THEN done(CouldNotFindIoQueuePair, {}, <<>>, <<>>, blocks)
        ELSE IF buffer_too_big(Len(buffer)) THEN done(BufferTooBig, {}, <<>>, <<>>, blocks)
        ELSE IF pointer = AllocError
            THEN done(CouldNotAllocateMemory, {}, <<>>, <<>>, blocks)
        ELSE IF ~ctrl_ok
            THEN done(CouldNotWriteToIoQueuePair, {pointer}, <<write>>, kernel_buffer, blocks)
        ELSE done(Ok, {pointer}, <<write>>, kernel_buffer,
                  controller_write(blocks, logical_block_address, kernel_buffer))

\* The device memory after a transfer that obtained the buffers `staged`.
with_staging(memory, staged, buffer_len) ==
    [a \in (DOMAIN memory) \cup staged |->
        IF a \in staged THEN Block(Layout(buffer_len, BasePageSize_SIZE), "staging")
        ELSE memory[a]]

\* ------------------------------------------------------------ NvmeAllocator
\* allocate(size): `memory` is what DeviceAlloc.allocate returns for
\* `layout`; expect panics on its error, otherwise the layout is recorded
\* under the address.
\* The allocate that records the size rounded up to whole pages.
allocate_outcome_rounding(allocs, size, memory) ==
    LET layout == Layout(size, BasePageSize_SIZE)
        rounded == Layout(BasePageSize_SIZE, BasePageSize_SIZE)
    IN  IF memory = AllocError
            THEN [panic |-> TRUE, allocations |-> allocs, ret |-> None, layout |-> layout]
        ELSE [panic |-> FALSE, allocations |-> insert(allocs, memory, rounded),
              ret |-> memory, layout |-> layout]

allocate_outcome(allocs, size, memory) ==
    LET layout == Layout(size, BasePageSize_SIZE)
    IN  IF memory = AllocError
            THEN [panic |-> TRUE, allocations |-> allocs, ret |-> None, layout |-> layout]
        ELSE [panic |-> FALSE, allocations |-> insert(allocs, memory, layout),
              ret |-> memory, layout |-> layout]

\* The deallocate that looks the record up and leaves it in the table.
deallocate_outcome_keeping_record(allocs, address) ==
    IF ~contains_key(allocs, address)
        THEN [panic |-> TRUE, allocations |-> allocs,
              released |-> FALSE, layout |-> NoLayout]
    ELSE [panic |-> FALSE, allocations |-> allocs,
          released |-> TRUE, layout |-> allocs[address]]

\* The deallocate that returns when the table has no record of the address.
deallocate_outcome_silent(allocs, address) ==
    IF ~contains_key(allocs, address)
        THEN [panic |-> FALSE, allocations |-> allocs,
              released |-> FALSE, layout |-> NoLayout]
    ELSE [panic |-> FALSE, allocations |-> remove(allocs, address),
          released |-> TRUE, layout |-> allocs[address]]

\* deallocate(address): the record of the address is removed; expect panics
\* when there was none, otherwise the layout of the record is the one the
\* memory is released with.
deallocate_outcome(allocs, address) ==
    IF ~contains_key(allocs, address)
        THEN [panic |-> TRUE, allocations |-> remove(allocs, address),
              released |-> FALSE, layout |-> NoLayout]
    ELSE [panic |-> FALSE, allocations |-> remove(allocs, address),
          released |-> TRUE, layout |-> allocs[address]]

\* ------------------------------------------------------------ system calls
\* The system call that reports every error as the first error kind.
sys_result_masking(res) == IF res = Ok THEN 0 ELSE ZeroPointerParameter

\* match inner(..) { Ok(()) => 0, Err(error) => error as usize }
sys_result(res) == IF res = Ok THEN 0 ELSE res

\* The record of a driver call made by the system call `syscall`: the value
\* returned is stored through the result pointer when the call succeeded.
system(call, syscall) ==
    [call EXCEPT !.syscall = syscall, !.sys = sys_result(call.res),
                 !.result = IF call.res = Ok THEN call.ret ELSE None]

\* ------------------------------------------------------------------- init
\* NvmeDriver::init: Err(()) (a result of None here) when the BAR cannot be
\* mapped or the Controller rejects the hardware; a panic, in expect, when
\* the device has no interrupt line.
init_outcome(bar_ok, controller_ok, irq_ok) ==
    LET bar == Request("memory_map_bar", 0, 0, bar_ok)
        device == Request("nvme::Device::init", 0, 0, controller_ok)
        irq == Request("get_irq", 0, 0, irq_ok)
    IN  IF ~bar_ok THEN [res |-> None, panic |-> FALSE, ctrl |-> <<bar>>]
        ELSE IF ~controller_ok
            THEN [res |-> None, panic |-> FALSE, ctrl |-> <<bar, device>>]
        ELSE IF ~irq_ok
            THEN [res |-> None, panic |-> TRUE, ctrl |-> <<bar, device, irq>>]
        ELSE [res |-> Ok, panic |-> FALSE, ctrl |-> <<bar, device, irq>>]

\* ------------------------------------------------------------------- locks
\* A task is idle, or in a system call `op` with the argument `arg` (the
\* namespace index of a create, the identifier of the others) at the
\* position `pc`.
Callers == 1..MaxCallers

Idle == [pc |-> "idle", op |-> "none", arg |-> None]

\* InterruptTicketMutex::lock returns once the mutex is free; dropping the
\* guard frees it.
lock(mutex, caller) == caller

\* The guard that is forgotten instead of dropped.
unlock_forgotten(mutex, caller) == mutex

unlock(mutex, caller) == IF mutex = caller THEN 0 ELSE mutex

\* The create that takes the registry lock before it identifies the namespaces.
registry_at_identify_locked(registry, caller) == lock(registry, caller)

\* create_io_queue_pair: identify_namespaces is called before
\* self.io_queue_pairs.lock(), which the call does not touch.
registry_at_identify(registry, caller) == registry

\* The lookup whose guard is a temporary, dropped once the lookup is done.
registry_after_lookup_dropped(registry, caller) == unlock(registry, caller)

\* read_from / write_to_io_queue_pair: the guard `lock` is a local of the
\* function and io_queue_pair borrows from it, so it lives until the return.
registry_after_lookup(registry, caller) == registry

\* ----------------------------------------------------------------- Console
SERIAL_BUFFER_SIZE == 256

NewLine == 10

\* Console::new: an empty buffer; nothing has been given to the device.
Console_new == [buffer |-> <<>>, device |-> <<>>, panic |-> FALSE]

\* The buffers written: `length` bytes, all `byte` but for a newline at the
\* position `newline` when that is one of 1..length.
Filled(length, byte, newline) ==
    [i \in 1..length |-> IF i = newline THEN NewLine ELSE byte]

ConsoleLens == {0, 1, SERIAL_BUFFER_SIZE - 1, SERIAL_BUFFER_SIZE, SERIAL_BUFFER_SIZE + 1}

\* The n-th write is filled with the byte n.
ConsoleBuffers(n) ==
    {Filled(length, n, newline) : length \in ConsoleLens, newline \in {0, 1}}
        \cup {Filled(length, n, length) : length \in ConsoleLens}

contains(buf, byte) == \E i \in DOMAIN buf : buf[i] = byte

\* IoDevice::write(buf): the device gets the bytes of buf.
device_write(con, buf) == [con EXCEPT !.device = @ \o buf]

\* heapless Vec::extend_from_slice(buf).unwrap(): an Err, and a panic, when
\* the bytes do not fit in the capacity that is left.
extend_from_slice(con, buf) ==
    IF Len(con.buffer) + Len(buf) > SERIAL_BUFFER_SIZE THEN [con EXCEPT !.panic = TRUE]
    ELSE [con EXCEPT !.buffer = @ \o buf]

Console_flush(con) ==
    IF con.buffer # <<>>
        THEN [device_write(con, con.buffer) EXCEPT !.buffer = <<>>]
    ELSE con

\* extend_from_slice(buf), then flush when buf contains a newline.
buffered(con, buf) ==
    LET extended == extend_from_slice(con, buf)
    IN  IF extended.panic THEN extended
        ELSE IF contains(buf, NewLine) THEN Console_flush(extended)
        ELSE extended

\* The write that buffers a buffer of SERIAL_BUFFER_SIZE bytes or more after
\* the buffer has been written out.
Console_write_buffering(con, buf) ==
    IF SERIAL_BUFFER_SIZE - Len(con.buffer) >= Len(buf) THEN buffered(con, buf)
    ELSE buffered([device_write(con, con.buffer) EXCEPT !.buffer = <<>>], buf)

Console_write(con, buf) ==
    IF SERIAL_BUFFER_SIZE - Len(con.buffer) >= Len(buf) THEN buffered(con, buf)
    ELSE LET cleared == [device_write(con, con.buffer) EXCEPT !.buffer = <<>>]
         IN  IF Len(buf) >= SERIAL_BUFFER_SIZE THEN device_write(cleared, buf)
             ELSE buffered(cleared, buf)

\* ---------------------------------------------------------------- scenario
\* The run "create A, create B, create C, delete A, create D" from the empty
\* table with a Controller that accepts every request: step counts the calls
\* of the run made so far, -1 once the calls made are not a prefix of it.
NoScenario == [step |-> 0, a |-> None, b |-> None, c |-> Ok, del |-> Ok, d |-> None]

Abandoned == [NoScenario EXCEPT !.step = -1]

observe(sc, call) ==
    LET accepted_create ==
            call.op = "create_io_queue_pair" /\ call.res \in {Ok, MaxNumberOfQueuesReached}
    IN  IF sc.step = 0 /\ accepted_create
            THEN [sc EXCEPT !.step = 1, !.a = call.ret]
        ELSE IF sc.step = 1 /\ accepted_create
            THEN [sc EXCEPT !.step = 2, !.b = call.ret]
        ELSE IF sc.step = 2 /\ accepted_create
            THEN [sc EXCEPT !.step = 3, !.c = call.res]
        ELSE IF sc.step = 3 /\ call.op = "delete_io_queue_pair" /\ call.arg = sc.a
                /\ call.res \in {Ok, CouldNotFindIoQueuePair}
            THEN [sc EXCEPT !.step = 4, !.del = call.res]
        ELSE IF sc.step = 4 /\ accepted_create
            THEN [sc EXCEPT !.step = 5, !.d = call.ret]
        ELSE Abandoned

\* The run "allocate(1) returns a, deallocate(a), allocate(MaxSize) returns a
\* again, deallocate(a)" from the start: step counts its calls made so far,
\* -1 once the calls made are not a prefix of it.
NoReuse == [step |-> 0, address |-> None]

NotReuse == [NoReuse EXCEPT !.step = -1]

observe_reuse(run, call) ==
    IF run.step = 0 /\ call.op = "allocate" /\ call.arg = 1 /\ call.ret # None
        THEN [step |-> 1, address |-> call.ret]
    ELSE IF run.step \in {1, 3} /\ call.op = "deallocate" /\ call.arg = run.address
            /\ call.freed.address = run.address
        THEN [run EXCEPT !.step = run.step + 1]
    ELSE IF run.step = 2 /\ call.op = "allocate" /\ call.arg = MaxSize
            /\ call.ret = run.address
        THEN [run EXCEPT !.step = 3]
    ELSE NotReuse

\* ------------------------------------------------------------------ actions
\* The kernel before the PCI devices are probed.
Boot ==
    /\ io_queue_pairs = EmptyMap
    /\ next_handle = 0
    /\ allocations = EmptyMap
    /\ device_memory = EmptyMap
    /\ disk = EmptyDisk
    /\ halted = FALSE
    /\ nvme_driver = "uninitialized"
    /\ callers = [c \in Callers |-> Idle]
    /\ driver_mutex = 0
    /\ registry_mutex = 0
    /\ allocations_mutex = 0
    /\ console = Console_new
    /\ console_written = <<>>
    /\ last = NoCall
    /\ scenario = NoScenario
    /\ reuse_run = NoReuse

\* The kernel once NvmeDriver::init has returned Ok(Self { .. }): the tables
\* are empty and the driver is registered.
Init ==
    /\ io_queue_pairs = EmptyMap
    /\ next_handle = 0
    /\ allocations = EmptyMap
    /\ device_memory = EmptyMap
    /\ disk = EmptyDisk
    /\ halted = FALSE
    /\ nvme_driver = "some"
    /\ callers = [c \in Callers |-> Idle]
    /\ driver_mutex = 0
    /\ registry_mutex = 0
    /\ allocations_mutex = 0
    /\ console = Console_new
    /\ console_written = <<>>
    /\ last = NoCall
    /\ scenario = NoScenario
    /\ reuse_run = NoReuse

\* NvmeDriver::init, called once when the device is found; the driver is
\* registered when it returns Ok.
init ==
    /\ ~halted
    /\ nvme_driver = "uninitialized"
    /\ \E bar_ok, controller_ok, irq_ok \in BOOLEAN :
        LET out == init_outcome(bar_ok, controller_ok, irq_ok)
        IN  /\ nvme_driver' = IF out.res = Ok THEN "some" ELSE "none"
            /\ halted' = out.panic
            /\ last' = [NoCall EXCEPT !.op = "init", !.res = out.res,
                                       !.ctrl = out.ctrl]
    /\ UNCHANGED <<io_queue_pairs, next_handle, allocations, device_memory, disk,
                   scenario, reuse_run>>
    /\ UNCHANGED <<locks, console_vars>>

\* A system call that returns `error` before it reaches the driver.
rejected(syscall, error, result_is_null) ==
    /\ ~halted
    /\ last' = system([NoCall EXCEPT !.res = error, !.before = io_queue_pairs,
                                     !.result_is_null = result_is_null], syscall)
    /\ UNCHANGED <<io_queue_pairs, next_handle, allocations, device_memory, disk,
                   halted, nvme_driver, scenario, reuse_run>>
    /\ UNCHANGED <<locks, console_vars>>

\* get_nvme_driver().ok_or(SysNvmeError::DeviceDoesNotExist)
no_driver(syscall) ==
    /\ nvme_driver # "some"
    /\ rejected(syscall, DeviceDoesNotExist, FALSE)

\* The null check made after the driver has been looked up.
null_result_after_lookup(syscall) ==
    IF nvme_driver # "some" THEN rejected(syscall, DeviceDoesNotExist, TRUE)
    ELSE rejected(syscall, ZeroPointerParameter, TRUE)

\* if result.is_null() { return Err(SysNvmeError::ZeroPointerParameter); }
null_result(syscall) == rejected(syscall, ZeroPointerParameter, TRUE)

\* A call that asks the driver or the Controller and changes nothing.
query(call) ==
    /\ ~halted
    /\ last' = call
    /\ scenario' = observe(scenario, call)
    /\ reuse_run' = observe_reuse(reuse_run, call)
    /\ UNCHANGED <<io_queue_pairs, next_handle, allocations, device_memory, disk, halted>>
    /\ UNCHANGED <<locks, nvme_driver, console_vars>>

get_number_of_namespaces ==
    \E nss \in IdentifyOutcomes :
        LET out == get_number_of_namespaces_outcome(nss)
        IN  query(system([NoCall EXCEPT !.op = "get_number_of_namespaces", !.res = out.res,
                       !.ret = out.ret, !.before = io_queue_pairs, !.ctrl = out.ctrl],
                     "sys_nvme_get_number_of_namespaces"))

get_max_buffer_size ==
    query(system([NoCall EXCEPT !.op = "get_max_buffer_size",
               !.ret = controller_data.max_transfer_size, !.before = io_queue_pairs],
                     "sys_nvme_get_max_buffer_size"))

get_max_number_of_queue_entries ==
    query(system([NoCall EXCEPT !.op = "get_max_number_of_queue_entries",
               !.ret = controller_data.max_queue_entries, !.before = io_queue_pairs],
                     "sys_nvme_get_max_number_of_queue_entries"))

get_size_of_namespace(namespace_index) ==
    \E nss \in IdentifyOutcomes :
        LET out == get_size_of_namespace_outcome(nss, namespace_index)
        IN  query(system([NoCall EXCEPT !.op = "get_size_of_namespace",
                       !.arg = namespace_index, !.res = out.res, !.ret = out.ret,
                       !.before = io_queue_pairs, !.ctrl = out.ctrl],
                     "sys_nvme_get_size_of_namespace"))

create_io_queue_pair(namespace_index, number_of_entries) ==
    /\ ~halted
    /\ \E out \in {create_outcome(io_queue_pairs, nss, namespace_index,
                                  number_of_entries, ctrl_ok, next_handle) :
                        nss \in IdentifyOutcomes, ctrl_ok \in BOOLEAN} :
        LET call == system([NoCall EXCEPT !.op = "create_io_queue_pair",
                         !.arg = namespace_index, !.res = out.res,
                         !.ret = out.ret, !.before = io_queue_pairs,
                         !.ctrl = out.ctrl],
                          "sys_nvme_create_io_queue_pair")
        IN  /\ out.created => next_handle < MaxHandles
            /\ io_queue_pairs' = out.table
            /\ next_handle' = IF out.created THEN next_handle + 1 ELSE next_handle
            /\ last' = call
            /\ scenario' = observe(scenario, call)
            /\ reuse_run' = observe_reuse(reuse_run, call)
    /\ UNCHANGED <<allocations, device_memory, disk, halted>>
    /\ UNCHANGED <<locks, nvme_driver, console_vars>>

delete_io_queue_pair(io_queue_pair_id) ==
    /\ ~halted
    /\ \E out \in {delete_outcome(io_queue_pairs, io_queue_pair_id, ctrl_ok) :
                        ctrl_ok \in BOOLEAN} :
        LET call == system([NoCall EXCEPT !.op = "delete_io_queue_pair",
                         !.arg = io_queue_pair_id, !.res = out.res,
                         !.before = io_queue_pairs, !.ctrl = out.ctrl],
                          "sys_nvme_delete_io_queue_pair")
        IN  /\ io_queue_pairs' = out.table
            /\ last' = call
            /\ scenario' = observe(scenario, call)
            /\ reuse_run' = observe_reuse(reuse_run, call)
    /\ UNCHANGED <<next_handle, allocations, device_memory, disk, halted>>
    /\ UNCHANGED <<locks, nvme_driver, console_vars>>

read_from_io_queue_pair(io_queue_pair_id, buffer, logical_block_address) ==
    /\ ~halted
    /\ \E out \in {read_outcome(io_queue_pairs, io_queue_pair_id, buffer,
                                logical_block_address, pointer, ctrl_ok, disk) :
                        pointer \in DeviceAllocOutcomes(device_memory),
                        ctrl_ok \in BOOLEAN} :
        LET call == system([NoCall EXCEPT !.op = "read_from_io_queue_pair",
                         !.arg = io_queue_pair_id, !.len = Len(buffer),
                         !.res = out.res, !.before = io_queue_pairs,
                         !.ctrl = out.ctrl, !.staged = out.staged,
                         !.buffer = buffer, !.sent = out.sent,
                         !.after = out.buffer],
                          "sys_nvme_read_from_io_queue_pair")
        IN  /\ device_memory' = with_staging(device_memory, out.staged, Len(buffer))
            /\ last' = call
            /\ scenario' = observe(scenario, call)
            /\ reuse_run' = observe_reuse(reuse_run, call)
    /\ UNCHANGED <<io_queue_pairs, next_handle, allocations, disk, halted>>
    /\ UNCHANGED <<locks, nvme_driver, console_vars>>

write_to_io_queue_pair(io_queue_pair_id, buffer, logical_block_address) ==
    /\ ~halted
    /\ \E out \in {write_outcome(io_queue_pairs, io_queue_pair_id, buffer,
                                 logical_block_address, pointer, ctrl_ok, disk) :
                        pointer \in DeviceAllocOutcomes(device_memory),
                        ctrl_ok \in BOOLEAN} :
        LET call == system([NoCall EXCEPT !.op = "write_to_io_queue_pair",
                         !.arg = io_queue_pair_id, !.len = Len(buffer),
                         !.res = out.res, !.before = io_queue_pairs,
                         !.ctrl = out.ctrl, !.staged = out.staged,
                         !.buffer = buffer, !.sent = out.sent,
                         !.after = buffer],
                          "sys_nvme_write_to_io_queue_pair")
        IN  /\ device_memory' = with_staging(device_memory, out.staged, Len(buffer))
            /\ disk' = out.blocks
            /\ last' = call
            /\ scenario' = observe(scenario, call)
            /\ reuse_run' = observe_reuse(reuse_run, call)
    /\ UNCHANGED <<io_queue_pairs, next_handle, allocations, halted>>
    /\ UNCHANGED <<locks, nvme_driver, console_vars>>

allocate(size) ==
    /\ ~halted
    /\ \E memory \in DeviceAllocOutcomes(device_memory) :
        LET out == allocate_outcome(allocations, size, memory)
            call == [NoCall EXCEPT !.op = "allocate", !.arg = size,
                         !.ret = out.ret, !.before = allocations]
        IN  /\ allocations' = out.allocations
            /\ device_memory' =
                    IF memory = AllocError THEN device_memory
                    ELSE insert(device_memory, memory, Block(out.layout, "nvme"))
            /\ halted' = out.panic
            /\ last' = call
            /\ reuse_run' = observe_reuse(reuse_run, call)
    /\ UNCHANGED <<io_queue_pairs, next_handle, disk, scenario>>
    /\ UNCHANGED <<locks, nvme_driver, console_vars>>

deallocate(address) ==
    /\ ~halted
    /\ LET out == deallocate_outcome(allocations, address)
           obtained == IF contains_key(device_memory, address)
                       THEN device_memory[address].layout ELSE NoLayout
           call == [NoCall EXCEPT !.op = "deallocate", !.arg = address,
                        !.before = allocations,
                        !.freed = IF out.released
                                  THEN [address |-> address, layout |-> out.layout,
                                        obtained |-> obtained]
                                  ELSE NoRelease]
       IN  /\ allocations' = out.allocations
           /\ device_memory' =
                    IF out.released THEN device_deallocate(device_memory, address)
                    ELSE device_memory
           /\ halted' = out.panic
           /\ last' = call
           /\ reuse_run' = observe_reuse(reuse_run, call)
    /\ UNCHANGED <<io_queue_pairs, next_handle, disk, scenario>>
    /\ UNCHANGED <<locks, nvme_driver, console_vars>>

\* The system calls: the result pointer is checked, then the driver is
\* looked up, then the driver operation runs.
sys_nvme_get_number_of_namespaces(result_is_null) ==
    \/ result_is_null /\ null_result("sys_nvme_get_number_of_namespaces")
    \/ ~result_is_null /\ no_driver("sys_nvme_get_number_of_namespaces")
    \/ ~result_is_null /\ nvme_driver = "some" /\ get_number_of_namespaces

sys_nvme_get_max_buffer_size(result_is_null) ==
    \/ result_is_null /\ null_result("sys_nvme_get_max_buffer_size")
    \/ ~result_is_null /\ no_driver("sys_nvme_get_max_buffer_size")
    \/ ~result_is_null /\ nvme_driver = "some" /\ get_max_buffer_size

sys_nvme_get_max_number_of_queue_entries(result_is_null) ==
    \/ result_is_null /\ null_result("sys_nvme_get_max_number_of_queue_entries")
    \/ ~result_is_null /\ no_driver("sys_nvme_get_max_number_of_queue_entries")
    \/ ~result_is_null /\ nvme_driver = "some" /\ get_max_number_of_queue_entries

sys_nvme_get_size_of_namespace(namespace_index, result_is_null) ==
    \/ result_is_null /\ null_result("sys_nvme_get_size_of_namespace")
    \/ ~result_is_null /\ no_driver("sys_nvme_get_size_of_namespace")
    \/ ~result_is_null /\ nvme_driver = "some" /\ get_size_of_namespace(namespace_index)

sys_nvme_create_io_queue_pair(namespace_index, number_of_entries, result_is_null) ==
    \/ result_is_null /\ null_result("sys_nvme_create_io_queue_pair")
    \/ ~result_is_null /\ no_driver("sys_nvme_create_io_queue_pair")
    \/ /\ ~result_is_null /\ nvme_driver = "some"
       /\ create_io_queue_pair(namespace_index, number_of_entries)

\* The system calls without a result pointer.
sys_nvme_delete_io_queue_pair(io_queue_pair_id) ==
    \/ no_driver("sys_nvme_delete_io_queue_pair")
    \/ nvme_driver = "some" /\ delete_io_queue_pair(io_queue_pair_id)

sys_nvme_read_from_io_queue_pair(io_queue_pair_id, buffer, logical_block_address) ==
    \/ no_driver("sys_nvme_read_from_io_queue_pair")
    \/ /\ nvme_driver = "some"
       /\ read_from_io_queue_pair(io_queue_pair_id, buffer, logical_block_address)

sys_nvme_write_to_io_queue_pair(io_queue_pair_id, buffer, logical_block_address) ==
    \/ no_driver("sys_nvme_write_to_io_queue_pair")
    \/ /\ nvme_driver = "some"
       /\ write_to_io_queue_pair(io_queue_pair_id, buffer, logical_block_address)

\* The operations of a registered driver, as the system calls run them, and
\* the calls the Controller makes into its allocator.
Next ==
    \/ \E namespace_index \in NamespaceIndices, number_of_entries \in EntryCounts :
            create_io_queue_pair(namespace_index, number_of_entries)
    \/ \E io_queue_pair_id \in IoQueuePairIds : delete_io_queue_pair(io_queue_pair_id)
    \/ \E io_queue_pair_id \in IoQueuePairIds, buffer \in ZeroBuffers,
          logical_block_address \in LogicalBlockAddresses :
            read_from_io_queue_pair(io_queue_pair_id, buffer, logical_block_address)
    \/ \E io_queue_pair_id \in IoQueuePairIds, buffer \in ZeroBuffers,
          logical_block_address \in LogicalBlockAddresses :
            write_to_io_queue_pair(io_queue_pair_id, buffer, logical_block_address)
    \/ \E size \in Sizes : allocate(size)
    \/ \E address \in Addrs : deallocate(address)

Spec == Init /\ [][Next]_vars

\* The system calls from the boot of the kernel on: NvmeDriver::init runs
\* once, and every sys_nvme_* may be called before and after it.  The
\* Controller's calls into NvmeAllocator are left to Spec.
NextSys ==
    \/ init
    \/ \E result_is_null \in BOOLEAN : sys_nvme_get_number_of_namespaces(result_is_null)
    \/ \E result_is_null \in BOOLEAN : sys_nvme_get_max_buffer_size(result_is_null)
    \/ \E result_is_null \in BOOLEAN :
            sys_nvme_get_max_number_of_queue_entries(result_is_null)
    \/ \E namespace_index \in NamespaceIndices, result_is_null \in BOOLEAN :
            sys_nvme_get_size_of_namespace(namespace_index, result_is_null)
    \/ \E namespace_index \in NamespaceIndices, number_of_entries \in EntryCounts,
          result_is_null \in BOOLEAN :
            sys_nvme_create_io_queue_pair(namespace_index, number_of_entries,
                                          result_is_null)
    \/ \E io_queue_pair_id \in IoQueuePairIds :
            sys_nvme_delete_io_queue_pair(io_queue_pair_id)
    \/ \E io_queue_pair_id \in IoQueuePairIds, buffer \in ZeroBuffers,
          logical_block_address \in LogicalBlockAddresses :
            sys_nvme_read_from_io_queue_pair(io_queue_pair_id, buffer,
                                             logical_block_address)
    \/ \E io_queue_pair_id \in IoQueuePairIds, buffer \in ZeroBuffers,
          logical_block_address \in LogicalBlockAddresses :
            sys_nvme_write_to_io_queue_pair(io_queue_pair_id, buffer,
                                            logical_block_address)

SpecSys == Boot /\ [][NextSys]_vars

\* The data path: the queue-pair operations of a registered driver with
\* buffers of every content.
\* The Controller's calls into NvmeAllocator change neither the queue-pair
\* table nor the namespace, and are left to Spec.  The blocks of the
\* namespace do not depend on each other: the transfers address the first.
NextData ==
    \/ \E namespace_index \in NamespaceIndices, number_of_entries \in EntryCounts :
            create_io_queue_pair(namespace_index, number_of_entries)
    \/ \E io_queue_pair_id \in IoQueuePairIds : delete_io_queue_pair(io_queue_pair_id)
    \/ \E io_queue_pair_id \in IoQueuePairIds, buffer \in DataBuffers,
          logical_block_address \in DataAddresses :
            read_from_io_queue_pair(io_queue_pair_id, buffer, logical_block_address)
    \/ \E io_queue_pair_id \in IoQueuePairIds, buffer \in DataBuffers,
          logical_block_address \in DataAddresses :
            write_to_io_queue_pair(io_queue_pair_id, buffer, logical_block_address)

SpecData == Init /\ [][NextData]_vars

\* The console: Console::write and Console::flush, called with the guard of
\* CONSOLE held, one call at a time.
console_call(op, con) ==
    /\ ~halted
    /\ console' = con
    /\ halted' = con.panic
    /\ last' = [NoCall EXCEPT !.op = op]
    /\ UNCHANGED <<io_queue_pairs, next_handle, allocations, device_memory, disk,
                   nvme_driver, scenario, reuse_run, locks>>

write(buf) ==
    /\ Len(console_written) < MaxWrites
    /\ console_call("write", Console_write(console, buf))
    /\ console_written' = Append(console_written, buf)

flush ==
    /\ console_call("flush", Console_flush(console))
    /\ UNCHANGED console_written

NextConsole ==
    \/ \E buf \in ConsoleBuffers(Len(console_written) + 1) : write(buf)
    \/ flush

SpecConsole == Init /\ [][NextConsole]_vars

\* ------------------------------------------------- the calls, step by step
\* The system calls of several tasks on a registered driver, each split at the points where it
\* takes or drops a mutex or waits for the Controller.  Only the queue-pair
\* table is followed; what a call returns is in Spec.
at(caller, op, pc) == callers[caller].op = op /\ callers[caller].pc = pc

goto(caller, pc) == [callers EXCEPT ![caller].pc = pc]

data == <<allocations, device_memory, disk, nvme_driver, last, scenario,
         reuse_run, console_vars>>

\* What a step that calls no NvmeAllocator callback leaves alone.
rest == <<data, halted, allocations_mutex>>

\* A task enters sys_nvme_*.
sys_call(caller, op, arg) ==
    /\ ~halted
    /\ callers[caller] = Idle
    /\ callers' = [callers EXCEPT ![caller] = [pc |-> "called", op |-> op, arg |-> arg]]
    /\ UNCHANGED <<io_queue_pairs, next_handle, driver_mutex, registry_mutex>>
    /\ UNCHANGED rest

\* driver.lock(): the guard is a temporary of the statement that calls the
\* driver operation.
lock_driver(caller) ==
    /\ ~halted
    /\ callers[caller].pc = "called"
    /\ driver_mutex = 0
    /\ driver_mutex' = lock(driver_mutex, caller)
    /\ callers' = goto(caller, "entered")
    /\ UNCHANGED <<io_queue_pairs, next_handle, registry_mutex>>
    /\ UNCHANGED rest

\* create_io_queue_pair: controller.identify_namespaces(0) is called.
create_identify(caller) ==
    /\ ~halted
    /\ at(caller, "create_io_queue_pair", "entered")
    /\ registry_mutex' = registry_at_identify(registry_mutex, caller)
    /\ callers' = goto(caller, "identify")
    /\ UNCHANGED <<io_queue_pairs, next_handle, driver_mutex>>
    /\ UNCHANGED rest

\* identify_namespaces returns and the namespace is looked up in its list.
create_resolve(caller) ==
    /\ ~halted
    /\ at(caller, "create_io_queue_pair", "identify")
    /\ allocations_mutex # caller
    /\ \E nss \in IdentifyOutcomes :
            callers' = goto(caller,
                IF nss.ok /\ get_namespace(nss, callers[caller].arg) # None
                THEN "resolved" ELSE "returning")
    /\ UNCHANGED <<io_queue_pairs, next_handle, driver_mutex, registry_mutex>>
    /\ UNCHANGED rest

\* The create that locks the registry for the capacity check alone, and
\* scans and inserts without the guard.
create_lock_unguarded(caller) ==
    /\ ~halted
    /\ at(caller, "create_io_queue_pair", "resolved")
    /\ registry_mutex = 0
    /\ callers' = goto(caller, IF registry_full(io_queue_pairs) THEN "returning"
                               ELSE "creating")
    /\ UNCHANGED <<io_queue_pairs, next_handle, driver_mutex, registry_mutex>>
    /\ UNCHANGED rest

\* self.io_queue_pairs.lock(), the capacity check, and the call of
\* controller.create_io_queue_pair.
create_lock(caller) ==
    /\ ~halted
    /\ at(caller, "create_io_queue_pair", "resolved")
    /\ registry_mutex = 0
    /\ registry_mutex' = lock(registry_mutex, caller)
    /\ callers' = goto(caller, IF registry_full(io_queue_pairs) THEN "returning"
                               ELSE "creating")
    /\ UNCHANGED <<io_queue_pairs, next_handle, driver_mutex>>
    /\ UNCHANGED rest

\* controller.create_io_queue_pair returns; the scan and the insert.
create_insert(caller) ==
    /\ ~halted
    /\ at(caller, "create_io_queue_pair", "creating")
    /\ allocations_mutex # caller
    /\ \E ctrl_ok \in BOOLEAN :
        LET out == create_outcome(io_queue_pairs,
                                  [ok |-> TRUE, count |-> callers[caller].arg + 1],
                                  callers[caller].arg, 1, ctrl_ok, next_handle)
        IN  /\ out.created => next_handle < MaxHandles
            /\ io_queue_pairs' = out.table
            /\ next_handle' = IF out.created THEN next_handle + 1 ELSE next_handle
    /\ callers' = goto(caller, "returning")
    /\ UNCHANGED <<driver_mutex, registry_mutex>>
    /\ UNCHANGED rest

\* delete_io_queue_pair: self.io_queue_pairs.lock().remove(&id); the guard
\* is a temporary of this statement.
delete_remove(caller) ==
    /\ ~halted
    /\ at(caller, "delete_io_queue_pair", "entered")
    /\ registry_mutex = 0
    /\ LET out == delete_outcome(io_queue_pairs, callers[caller].arg, TRUE)
       IN  /\ io_queue_pairs' = out.table
           /\ callers' = goto(caller, IF out.ctrl = <<>> THEN "returning"
                                      ELSE "deleting")
    /\ UNCHANGED <<next_handle, driver_mutex, registry_mutex>>
    /\ UNCHANGED rest

\* controller.delete_io_queue_pair returns.
delete_teardown(caller) ==
    /\ ~halted
    /\ at(caller, "delete_io_queue_pair", "deleting")
    /\ allocations_mutex # caller
    /\ callers' = goto(caller, "returning")
    /\ UNCHANGED <<io_queue_pairs, next_handle, driver_mutex, registry_mutex>>
    /\ UNCHANGED rest

IsTransferOp(op) == op \in {"read_from_io_queue_pair", "write_to_io_queue_pair"}

\* read_from / write_to_io_queue_pair: self.io_queue_pairs.lock().
transfer_lock(caller) ==
    /\ ~halted
    /\ IsTransferOp(callers[caller].op) /\ callers[caller].pc = "entered"
    /\ registry_mutex = 0
    /\ registry_mutex' = lock(registry_mutex, caller)
    /\ callers' = goto(caller, "locked")
    /\ UNCHANGED <<io_queue_pairs, next_handle, driver_mutex>>
    /\ UNCHANGED rest

\* The lookup, the size check and the staging; then io_queue_pair.read or
\* io_queue_pair.write is called.
transfer_start(caller) ==
    /\ ~halted
    /\ IsTransferOp(callers[caller].op) /\ callers[caller].pc = "locked"
    /\ registry_mutex' = registry_after_lookup(registry_mutex, caller)
    /\ \E staged \in BOOLEAN :
            callers' = goto(caller,
                IF contains_key(io_queue_pairs, callers[caller].arg) /\ staged
                THEN "transfer" ELSE "returning")
    /\ UNCHANGED <<io_queue_pairs, next_handle, driver_mutex>>
    /\ UNCHANGED rest

\* io_queue_pair.read or io_queue_pair.write returns.
transfer_done(caller) ==
    /\ ~halted
    /\ IsTransferOp(callers[caller].op) /\ callers[caller].pc = "transfer"
    /\ allocations_mutex # caller
    /\ callers' = goto(caller, "returning")
    /\ UNCHANGED <<io_queue_pairs, next_handle, driver_mutex, registry_mutex>>
    /\ UNCHANGED rest

\* A request to the Controller is in progress: controller.identify_namespaces,
\* create_io_queue_pair or delete_io_queue_pair, io_queue_pair.read or write.
InController(caller) ==
    callers[caller].pc \in {"identify", "creating", "deleting", "transfer"}

\* The Controller calls NvmeAllocator::allocate or deallocate, which takes
\* self.allocations.lock().
allocator_lock(caller) ==
    /\ ~halted
    /\ InController(caller)
    /\ allocations_mutex = 0
    /\ allocations_mutex' = lock(allocations_mutex, caller)
    /\ UNCHANGED <<io_queue_pairs, next_handle, callers, driver_mutex, registry_mutex>>
    /\ UNCHANGED <<data, halted>>

\* The insert or the remove is done and the statement ends: the guard, a
\* temporary of the statement, is dropped.
allocator_unlock(caller) ==
    /\ ~halted
    /\ allocations_mutex = caller
    /\ allocations_mutex' = unlock(allocations_mutex, caller)
    /\ UNCHANGED <<io_queue_pairs, next_handle, callers, driver_mutex, registry_mutex>>
    /\ UNCHANGED <<data, halted>>

\* An expect of the callback panics: allocate's before it takes the lock, when
\* the device allocator has no memory, deallocate's inside the statement
\* that holds the guard, when the address has no record.
allocator_panic(caller) ==
    /\ ~halted
    /\ InController(caller)
    /\ allocations_mutex \in {0, caller}
    /\ halted' = TRUE
    /\ UNCHANGED <<io_queue_pairs, next_handle, callers, driver_mutex, registry_mutex,
                   allocations_mutex>>
    /\ UNCHANGED data

\* The driver operation returns: its guard of the registry is dropped, then
\* the guard of the driver.
sys_return(caller) ==
    /\ ~halted
    /\ callers[caller].pc = "returning"
    /\ registry_mutex' = unlock(registry_mutex, caller)
    /\ driver_mutex' = unlock(driver_mutex, caller)
    /\ callers' = [callers EXCEPT ![caller] = Idle]
    /\ UNCHANGED <<io_queue_pairs, next_handle>>
    /\ UNCHANGED rest

NextLocks ==
    \E caller \in Callers :
        \/ \E namespace_index \in NamespaceIndices :
                sys_call(caller, "create_io_queue_pair", namespace_index)
        \/ \E op \in {"delete_io_queue_pair", "read_from_io_queue_pair",
                       "write_to_io_queue_pair"}, io_queue_pair_id \in IoQueuePairIds :
                sys_call(caller, op, io_queue_pair_id)
        \/ lock_driver(caller)
        \/ create_identify(caller)
        \/ create_resolve(caller)
        \/ create_lock(caller)
        \/ create_insert(caller)
        \/ delete_remove(caller)
        \/ delete_teardown(caller)
        \/ transfer_lock(caller)
        \/ transfer_start(caller)
        \/ transfer_done(caller)
        \/ allocator_lock(caller)
        \/ allocator_unlock(caller)
        \/ allocator_panic(caller)
        \/ sys_return(caller)

SpecLocks == Init /\ [][NextLocks]_vars

\* =================================================================== claims

IsCreate == last.op = "create_io_queue_pair"

IsDelete == last.op = "delete_io_queue_pair"

IsTransfer == last.op \in {"read_from_io_queue_pair", "write_to_io_queue_pair"}

FreeIds(table) == {i \in 0..(MAX_NUMBER_OF_QUEUE_PAIRS - 1) : i \notin DOMAIN table}

Lowest(S) == CHOOSE x \in S : \A y \in S : x <= y

\* C1: whenever create_io_queue_pair succeeds, the identifier it returns is the
\* lowest identifier of 0..MAX_NUMBER_OF_QUEUE_PAIRS that was not a key of the
\* queue-pair table when the call was made.
C1_LowestFreeId ==
    (IsCreate /\ last.res = Ok) =>
        /\ FreeIds(last.before) # {}
        /\ last.ret = Lowest(FreeIds(last.before))

\* C2: from the empty table, with a Controller that accepts every request,
\* create A returns 0, create B returns 1, create C fails with
\* MaxNumberOfQueuesReached, delete A succeeds, and create D returns 0.
C2_Scenario ==
    /\ scenario.step >= 1 => scenario.a = 0
    /\ scenario.step >= 2 => scenario.b = 1
    /\ scenario.step >= 3 => scenario.c = MaxNumberOfQueuesReached
    /\ scenario.step >= 4 => scenario.del = Ok
    /\ scenario.step >= 5 => scenario.d = 0

\* C3: a successful create returns an identifier of
\* [0, MAX_NUMBER_OF_QUEUE_PAIRS) that was not a key of the table, adds exactly
\* that entry and keeps every entry the table had; the first two creates from
\* the empty table return two different identifiers.
C3_DistinctIds ==
    /\ (IsCreate /\ last.res = Ok) =>
            /\ last.ret \in 0..(MAX_NUMBER_OF_QUEUE_PAIRS - 1)
            /\ last.ret \notin DOMAIN last.before
            /\ DOMAIN io_queue_pairs = (DOMAIN last.before) \cup {last.ret}
            /\ \A k \in DOMAIN last.before : io_queue_pairs[k] = last.before[k]
            /\ \A k \in DOMAIN last.before : io_queue_pairs[k] # io_queue_pairs[last.ret]
    /\ scenario.step \in 2..5 =>
            /\ scenario.a # scenario.b
            /\ {scenario.a, scenario.b} \subseteq 0..(MAX_NUMBER_OF_QUEUE_PAIRS - 1)

\* C3 witness: the create that fills the table, after a create into the empty table.
C3_Witness ==
    /\ IsCreate /\ last.res = Ok
    /\ len(io_queue_pairs) = MAX_NUMBER_OF_QUEUE_PAIRS
    /\ scenario.step = 2

\* C4 as stated: every create made on a full table fails with
\* MaxNumberOfQueuesReached, does not ask the Controller to create a queue
\* pair, and leaves the table unchanged.
C4_FullAlwaysRegistryFull ==
    (IsCreate /\ len(last.before) = MAX_NUMBER_OF_QUEUE_PAIRS) =>
        /\ last.res = MaxNumberOfQueuesReached
        /\ "create_io_queue_pair" \notin Requests(last)
        /\ io_queue_pairs = last.before

\* C4 amended: every create made on a full table fails, does not ask the
\* Controller to create a queue pair and leaves the table unchanged; the error
\* is CouldNotIdentifyNamespaces when the identification failed,
\* NamespaceDoesNotExist when namespace_index is not below the number of
\* namespaces identified, and MaxNumberOfQueuesReached otherwise.
C4_FullTableRejects ==
    (IsCreate /\ len(last.before) = MAX_NUMBER_OF_QUEUE_PAIRS) =>
        /\ last.ctrl # <<>>
        /\ last.ctrl[1].req = "identify_namespaces"
        /\ last.res = IF last.ctrl[1].b = None THEN CouldNotIdentifyNamespaces
                      ELSE IF last.arg >= last.ctrl[1].b THEN NamespaceDoesNotExist
                      ELSE MaxNumberOfQueuesReached
        /\ last.ret = None
        /\ "create_io_queue_pair" \notin Requests(last)
        /\ io_queue_pairs = last.before

\* C4 witness: a create on a full table that was rejected as registry-full.
C4_Witness ==
    /\ IsCreate /\ len(last.before) = MAX_NUMBER_OF_QUEUE_PAIRS
    /\ last.res = MaxNumberOfQueuesReached

\* C5: whenever no read or write is in progress, no staging buffer obtained
\* from the device allocator is live.
C5_NoLiveStagingBuffer == StagingBuffers(device_memory) = {}

\* C6 as stated: a read or write whose buffer is longer than
\* max_transfer_size is rejected with BufferTooBig, for every identifier, and
\* obtains no staging buffer and issues no Controller request.
C6_TooBigAlwaysBufferTooBig ==
    (IsTransfer /\ last.len > MaxTransferSize) =>
        /\ last.res = BufferTooBig
        /\ last.staged = {}
        /\ last.ctrl = <<>>

\* C6 amended: a read or write whose buffer is longer than max_transfer_size
\* is rejected, obtains no staging buffer and issues no Controller request;
\* the error is BufferTooBig when the identifier is a key of the table and
\* CouldNotFindIoQueuePair when it is not (the lookup comes first).
C6_TooBigRejected ==
    (IsTransfer /\ last.len > MaxTransferSize) =>
        /\ last.res = IF last.arg \in DOMAIN last.before THEN BufferTooBig
                      ELSE CouldNotFindIoQueuePair
        /\ last.staged = {}
        /\ last.ctrl = <<>>

\* C6 witness: a write of max_transfer_size + 1 bytes through a live queue pair.
C6_Witness ==
    /\ last.op = "write_to_io_queue_pair"
    /\ last.len = MaxTransferSize + 1
    /\ last.arg \in DOMAIN last.before
    /\ last.res = BufferTooBig

\* C7: a delete of an identifier that is not a key of the table fails with
\* CouldNotFindIoQueuePair, issues no Controller request and leaves the table
\* unchanged.
C7_DeleteAbsent ==
    (IsDelete /\ last.arg \notin DOMAIN last.before) =>
        /\ last.res = CouldNotFindIoQueuePair
        /\ last.ctrl = <<>>
        /\ io_queue_pairs = last.before

\* C7 witness: a delete of an absent identifier while another one is live.
C7_Witness ==
    /\ IsDelete /\ last.arg \notin DOMAIN last.before
    /\ last.before # EmptyMap
    /\ last.res = CouldNotFindIoQueuePair

IsAllocate == last.op = "allocate"

IsDeallocate == last.op = "deallocate"

\* C8: the allocation table holds exactly one record per address that
\* allocate has returned and deallocate has not yet taken back; an address
\* returned by allocate had no record before and is the one record added; a
\* deallocate of a live address removes exactly its record; so the table is
\* empty once every allocation has been matched by its deallocate.
C8_TableTracksLiveAddresses ==
    /\ DOMAIN allocations = ControllerBuffers(device_memory)
    /\ ControllerBuffers(device_memory) = {} => allocations = EmptyMap
    /\ (IsAllocate /\ last.ret # None) =>
            /\ last.ret \notin DOMAIN last.before
            /\ DOMAIN allocations = (DOMAIN last.before) \cup {last.ret}
    /\ (IsDeallocate /\ last.arg \in DOMAIN last.before) =>
            DOMAIN allocations = (DOMAIN last.before) \ {last.arg}

\* C8 witness: allocate returns an address while another one is live.
C8_Witness ==
    /\ IsAllocate /\ last.ret # None
    /\ last.before # EmptyMap
    /\ len(allocations) = len(last.before) + 1

\* C9: a deallocate of an address the table has no record of (never returned
\* by allocate, or deallocated already) panics, releases no memory and leaves
\* the table as it was.
C9_DeallocateUnknownPanics ==
    (IsDeallocate /\ last.arg \notin DOMAIN last.before) =>
        /\ halted
        /\ last.freed = NoRelease
        /\ allocations = last.before
        /\ DOMAIN allocations = ControllerBuffers(device_memory)

\* C9 witness: a deallocate of an address without a record panics while the
\* table holds the record of another address.
C9_Witness ==
    /\ IsDeallocate /\ halted
    /\ last.arg \notin DOMAIN last.before
    /\ last.before # EmptyMap

\* C10: a deallocate releases the memory at the address it is given, with the
\* layout (size, and the page size as alignment) the memory was obtained with
\* by the latest allocate that returned the address.
C10_ReleasedWithRecordedLayout ==
    /\ (IsDeallocate /\ last.freed # NoRelease) =>
            /\ last.freed.address = last.arg
            /\ last.freed.layout = last.freed.obtained
            /\ last.freed.layout.align = BasePageSize_SIZE
            /\ last.freed.layout.size \in Sizes
    /\ \A a \in DOMAIN allocations :
            a \in DOMAIN device_memory /\ allocations[a] = device_memory[a].layout

\* C10 witness: an address obtained with size 1, freed, obtained again with
\* size MaxSize, is released with size MaxSize.
C10_Witness ==
    /\ reuse_run.step = 4
    /\ IsDeallocate
    /\ last.freed.layout = Layout(MaxSize, BasePageSize_SIZE)

IsRead == last.op = "read_from_io_queue_pair"

IsWrite == last.op = "write_to_io_queue_pair"

\* C11: when a write of an N-byte buffer (N <= max_transfer_size) to a
\* logical block address through a live queue pair succeeds and the next call
\* is a read of N bytes from the same address through the same queue pair
\* that succeeds, the bytes the read delivers to its caller are the bytes the
\* write was given.
C11_RoundTrip ==
    [][(/\ IsWrite /\ last.res = Ok
        /\ last'.op = "read_from_io_queue_pair" /\ last'.res = Ok
        /\ last'.arg = last.arg
        /\ last'.ctrl[1].b = last.ctrl[1].b
        /\ last'.len = last.len)
       => last'.after = last.buffer]_vars

\* C11 witness: a read of max_transfer_size bytes has delivered bytes that
\* are not the zeros of a new namespace, into a buffer that held zeros: an
\* earlier write stored them.
C11_Witness ==
    /\ IsRead /\ last.res = Ok
    /\ last.len = MaxTransferSize
    /\ \A i \in 1..last.len : last.buffer[i] = 0 /\ last.after[i] = 1

InTransfer(caller) == callers[caller].pc = "transfer"

\* C12: at any time at most one task is inside the Controller transfer of a
\* read or write, whatever identifiers the tasks use; a task takes the
\* registry lock before it looks the identifier up and holds it, with the
\* driver mutex, until the transfer has returned.
C12_OneTransferAtATime ==
    /\ Cardinality({c \in Callers : InTransfer(c)}) <= 1
    /\ \A c \in Callers :
            (IsTransferOp(callers[c].op) /\ callers[c].pc \in {"locked", "transfer"})
                => (registry_mutex = c /\ driver_mutex = c)

\* C12 witness: a task is inside a transfer through one identifier while
\* another task has called a read or write with another identifier.
C12_Witness ==
    \E c, d \in Callers :
        /\ InTransfer(c)
        /\ IsTransferOp(callers[d].op) /\ callers[d].pc = "called"
        /\ callers[d].arg # callers[c].arg
        /\ callers[d].arg \in DOMAIN io_queue_pairs

InIdentify(caller) == at(caller, "create_io_queue_pair", "identify")

\* C13 as stated: while the identify_namespaces request of a create is in
\* progress, the task that makes it holds the registry lock.
C13_IdentifyUnderRegistryLock ==
    \A c \in Callers : InIdentify(c) => registry_mutex = c

\* C13 amended: while the identify_namespaces request of a create is in
\* progress, the task holds the driver mutex and nobody holds the registry
\* lock; the task takes the registry lock once the namespace is resolved and
\* holds it until the insert is done or the call has failed.
C13_IdentifyUnderDriverMutex ==
    \A c \in Callers :
        /\ InIdentify(c) => (driver_mutex = c /\ registry_mutex = 0)
        /\ at(c, "create_io_queue_pair", "resolved") => registry_mutex = 0
        /\ at(c, "create_io_queue_pair", "creating") => registry_mutex = c

\* C13 witness: the identify request of a create is in progress while another
\* task waits to create a queue pair.
C13_Witness ==
    \E c, d \in Callers :
        /\ InIdentify(c)
        /\ at(d, "create_io_queue_pair", "called")

\* C14: a read or write with an identifier that is not a key of the table
\* fails with CouldNotFindIoQueuePair, obtains no staging buffer, issues no
\* Controller transfer, and leaves the table and the caller's buffer as they
\* were.
C14_NotLiveRejected ==
    (IsTransfer /\ last.arg \notin DOMAIN last.before) =>
        /\ last.res = CouldNotFindIoQueuePair
        /\ last.staged = {}
        /\ last.ctrl = <<>>
        /\ io_queue_pairs = last.before
        /\ last.after = last.buffer

\* C14 witness: a read into a buffer of ones with an identifier that is not
\* live while another one is, with device memory left to stage in.
C14_Witness ==
    /\ IsRead /\ last.arg \notin DOMAIN last.before
    /\ last.before # EmptyMap
    /\ last.len = MaxTransferSize /\ \A i \in 1..last.len : last.buffer[i] = 1
    /\ DOMAIN device_memory # Addrs
    /\ last.res = CouldNotFindIoQueuePair

\* The error of the step a read failed at.
ReadError(call) ==
    IF call.arg \notin DOMAIN call.before THEN CouldNotFindIoQueuePair
    ELSE IF call.len > MaxTransferSize THEN BufferTooBig
    ELSE IF call.staged = {} THEN CouldNotAllocateMemory
    ELSE CouldNotReadFromIoQueuePair

\* C18: a write gives the Controller a staging buffer that already holds the
\* caller's bytes; a read copies the staging bytes into the caller's buffer
\* only when the Controller read succeeded; a read that fails (identifier not
\* found, buffer too big, allocation failure, transfer failure) leaves the
\* caller's buffer as it was and returns the error of the step that failed.
C18_StagingOrder ==
    /\ (IsWrite /\ last.ctrl # <<>>) => last.sent = last.buffer
    /\ (IsRead /\ last.res = Ok) =>
            /\ last.ctrl # <<>> /\ last.ctrl[1].ok
            /\ last.after = last.sent
    /\ (IsRead /\ last.res # Ok) =>
            /\ last.after = last.buffer
            /\ last.res = ReadError(last)
            /\ last.ctrl # <<>> => ~last.ctrl[1].ok

\* C18 witness: the Controller read fails for a buffer of ones.
C18_Witness ==
    /\ IsRead /\ last.res = CouldNotReadFromIoQueuePair
    /\ last.len = MaxTransferSize /\ \A i \in 1..last.len : last.buffer[i] = 1
    /\ last.after = last.buffer

\* C16: a delete of a live identifier hands the handle it removed from the
\* table to the Controller exactly once; it returns Ok when the teardown
\* succeeds and CouldNotDeleteIoQueuePair, which is neither Ok nor
\* CouldNotFindIoQueuePair, when it fails; either way the entry is gone.
C16_TeardownResult ==
    /\ CouldNotDeleteIoQueuePair \notin {Ok, CouldNotFindIoQueuePair}
    /\ (IsDelete /\ last.arg \in DOMAIN last.before) =>
            /\ Len(last.ctrl) = 1
            /\ last.ctrl[1].req = "delete_io_queue_pair"
            /\ last.ctrl[1].a = last.before[last.arg]
            /\ last.res = IF last.ctrl[1].ok THEN Ok ELSE CouldNotDeleteIoQueuePair
            /\ io_queue_pairs = remove(last.before, last.arg)
            /\ \A k \in DOMAIN io_queue_pairs : io_queue_pairs[k] # last.before[last.arg]

\* C16 witness: the teardown of one of two live queue pairs fails.
C16_Witness ==
    /\ IsDelete /\ last.res = CouldNotDeleteIoQueuePair
    /\ len(last.before) = MAX_NUMBER_OF_QUEUE_PAIRS
    /\ len(io_queue_pairs) = MAX_NUMBER_OF_QUEUE_PAIRS - 1

IsGetSize == last.op = "get_size_of_namespace"

\* C15: get_size_of_namespace(index) makes one identify request; it returns
\* CouldNotIdentifyNamespaces when the request fails, NamespaceDoesNotExist
\* for every index that is not below the length of the list identified, and
\* otherwise block_count * block_size of the namespace at the index.
C15_SizeOfNamespace ==
    IsGetSize =>
        /\ Len(last.ctrl) = 1 /\ last.ctrl[1].req = "identify_namespaces"
        /\ last.res = IF ~last.ctrl[1].ok THEN CouldNotIdentifyNamespaces
                      ELSE IF last.arg >= last.ctrl[1].b THEN NamespaceDoesNotExist
                      ELSE Ok
        /\ last.ret = IF last.res = Ok
                      THEN namespace_at(last.arg).block_count
                                * namespace_at(last.arg).block_size
                      ELSE None

\* C15 witness: the index is the length of a list that is not empty.
C15_Witness ==
    /\ IsGetSize /\ last.ctrl[1].ok
    /\ last.arg = last.ctrl[1].b /\ last.arg >= 1
    /\ last.res = NamespaceDoesNotExist

Operations ==
    {"get_number_of_namespaces", "get_size_of_namespace", "create_io_queue_pair",
     "delete_io_queue_pair", "read_from_io_queue_pair", "write_to_io_queue_pair"}

\* C20: within one call of a driver operation no Controller request is
\* issued twice, and a request that fails is the last one of the call, which
\* returns an error.
C20_NoRetry ==
    last.op \in Operations =>
        /\ \A i, j \in DOMAIN last.ctrl : last.ctrl[i].req = last.ctrl[j].req => i = j
        /\ \A i \in DOMAIN last.ctrl :
                ~last.ctrl[i].ok => (i = Len(last.ctrl) /\ last.res # Ok)

\* C20 witness: a create whose identify request was accepted and whose create
\* request failed.
C20_Witness ==
    /\ IsCreate /\ Len(last.ctrl) = 2
    /\ last.ctrl[1].ok /\ ~last.ctrl[2].ok
    /\ last.res = CouldNotCreateIoQueuePair

IsInit == last.op = "init"

\* C17: when the BAR cannot be mapped, the Controller rejects the hardware,
\* or the device has no interrupt line, NvmeDriver::init returns an error to
\* its caller: the kernel is not halted, no driver is registered, and no step
\* is made twice.
C17_InitFailureReturned ==
    (IsInit /\ \E i \in DOMAIN last.ctrl : ~last.ctrl[i].ok) =>
        /\ ~halted
        /\ last.res = None
        /\ nvme_driver = "none"
        /\ \A i, j \in DOMAIN last.ctrl : last.ctrl[i].req = last.ctrl[j].req => i = j

ErrorKinds ==
    {ZeroPointerParameter, DeviceDoesNotExist, CouldNotIdentifyNamespaces,
     NamespaceDoesNotExist, MaxNumberOfQueuesReached, CouldNotCreateIoQueuePair,
     CouldNotDeleteIoQueuePair, CouldNotFindIoQueuePair, BufferTooBig,
     CouldNotAllocateMemory, CouldNotReadFromIoQueuePair, CouldNotWriteToIoQueuePair}

IsSystemCall == last.syscall # "none"

\* C19: a system call returns 0 exactly when it reached the driver and the
\* driver operation succeeded, and otherwise the code of the error kind
\* reported, as it is; the twelve error kinds have the twelve different codes
\* 1..12.
C19_ReturnCodes ==
    /\ Cardinality(ErrorKinds) = 12 /\ ErrorKinds = 1..12
    /\ IsSystemCall =>
            /\ (last.sys = 0) <=> (last.op # "none" /\ last.res = Ok)
            /\ last.res # Ok => (last.sys = last.res /\ last.sys \in ErrorKinds)

\* C19 witness: sys_nvme_write_to_io_queue_pair returns 12 when the
\* Controller write failed.
C19_Witness ==
    /\ last.syscall = "sys_nvme_write_to_io_queue_pair"
    /\ last.res = CouldNotWriteToIoQueuePair
    /\ last.sys = 12

\* C21: a delete that finds the entry of an identifier removes it; while an
\* identifier has no entry every read, write and delete naming it fails with
\* CouldNotFindIoQueuePair; an identifier gets an entry again only by a
\* create that returns it, and the handle of that entry is one the
\* Controller has just built, which no entry has held before.
C21_DeletedIdStaysDead ==
    [][/\ \A k \in DOMAIN io_queue_pairs : io_queue_pairs[k] < next_handle
       /\ (last'.op = "delete_io_queue_pair" /\ last'.arg \in DOMAIN io_queue_pairs)
            => last'.arg \notin DOMAIN io_queue_pairs'
       /\ (/\ last'.op \in {"read_from_io_queue_pair", "write_to_io_queue_pair",
                             "delete_io_queue_pair"}
           /\ last'.arg \notin DOMAIN io_queue_pairs)
            => (last'.res = CouldNotFindIoQueuePair /\ io_queue_pairs' = io_queue_pairs)
       /\ \A id \in IoQueuePairIds :
            (id \notin DOMAIN io_queue_pairs /\ id \in DOMAIN io_queue_pairs')
                => /\ last'.op = "create_io_queue_pair" /\ last'.res = Ok
                   /\ last'.ret = id
                   /\ io_queue_pairs'[id] = next_handle
                   /\ next_handle' = next_handle + 1]_vars

\* C21 witness: a create has returned an identifier that was deleted before:
\* its handle is one more than the identifiers can hold at a time.
C21_Witness ==
    /\ IsCreate /\ last.res = Ok
    /\ io_queue_pairs[last.ret] >= MAX_NUMBER_OF_QUEUE_PAIRS

CreateRejected(call) ==
    call.op = "create_io_queue_pair" /\ call.res = CouldNotCreateIoQueuePair

\* C22: a create the Controller rejects returns CouldNotCreateIoQueuePair
\* and no identifier, and leaves the table as it was; a successful create
\* that follows it returns the identifier the scan finds for that table, the
\* one the rejected call would have returned.
C22_RejectedCreateConsumesNothing ==
    [][/\ CreateRejected(last) =>
            /\ last.ret = None
            /\ io_queue_pairs = last.before
            /\ Len(last.ctrl) = 2 /\ ~last.ctrl[2].ok
       /\ (CreateRejected(last) /\ last'.op = "create_io_queue_pair" /\ last'.res = Ok)
            => /\ last'.before = last.before
               /\ last'.ret = index_scan(last.before)
               /\ last'.ret \notin DOMAIN last.before]_vars

\* C22 witness: the Controller rejects a create while one queue pair is live.
C22_Witness ==
    /\ CreateRejected(last)
    /\ len(last.before) = MAX_NUMBER_OF_QUEUE_PAIRS - 1

TeardownFailed(call) ==
    call.op = "delete_io_queue_pair" /\ call.res = CouldNotDeleteIoQueuePair

\* C23: a delete whose teardown fails has asked the Controller for the
\* handle it took out of the table, and the identifier is not a key of the
\* table afterwards; a delete of the same identifier that follows returns
\* CouldNotFindIoQueuePair without asking the Controller; a create that
\* follows finds the identifier free, does not fail for a full table, and
\* returns the identifier when it is the one free identifier.
C23_RemovedBeforeTeardown ==
    [][/\ TeardownFailed(last) =>
            /\ last.arg \in DOMAIN last.before
            /\ last.ctrl = <<Request("delete_io_queue_pair", last.before[last.arg], 0, FALSE)>>
            /\ last.arg \notin DOMAIN io_queue_pairs
       /\ (TeardownFailed(last) /\ last'.op = "delete_io_queue_pair"
                /\ last'.arg = last.arg)
            => /\ last'.res = CouldNotFindIoQueuePair
               /\ last'.ctrl = <<>>
       /\ (TeardownFailed(last) /\ last'.op = "create_io_queue_pair")
            => /\ last.arg \notin DOMAIN last'.before
               /\ last'.res # MaxNumberOfQueuesReached
               /\ (last'.res = Ok /\ FreeIds(last'.before) = {last.arg})
                    => /\ last'.ret = last.arg
                       /\ last.arg \in DOMAIN io_queue_pairs']_vars

\* C23 witness: the teardown of the second of two live queue pairs fails; the
\* table was full and has room again.
C23_Witness ==
    /\ TeardownFailed(last)
    /\ last.arg = MAX_NUMBER_OF_QUEUE_PAIRS - 1
    /\ DOMAIN io_queue_pairs = {0}

Creating(caller) == at(caller, "create_io_queue_pair", "creating")

\* C24: under every interleaving of the calls of several tasks the table has
\* at most MAX_NUMBER_OF_QUEUE_PAIRS entries with keys in
\* [0, MAX_NUMBER_OF_QUEUE_PAIRS); at most one task is between its capacity
\* check and its insert, it holds the registry lock, and the table has room;
\* a key is added only by that task, while it holds the lock, and was free;
\* nothing else changes the table in between.
C24_TableBounded ==
    [][/\ len(io_queue_pairs) <= MAX_NUMBER_OF_QUEUE_PAIRS
       /\ DOMAIN io_queue_pairs \subseteq 0..(MAX_NUMBER_OF_QUEUE_PAIRS - 1)
       /\ Cardinality({c \in Callers : Creating(c)}) <= 1
       /\ \A c \in Callers :
            Creating(c) =>
                /\ registry_mutex = c
                /\ len(io_queue_pairs) < MAX_NUMBER_OF_QUEUE_PAIRS
                /\ (io_queue_pairs' # io_queue_pairs) => ~Creating(c)'
       /\ \A id \in IoQueuePairIds :
            (id \notin DOMAIN io_queue_pairs /\ id \in DOMAIN io_queue_pairs')
                => \E c \in Callers :
                        /\ Creating(c) /\ registry_mutex = c /\ registry_mutex' = c
                        /\ DOMAIN io_queue_pairs' = DOMAIN io_queue_pairs \cup {id}]_vars

\* C24 witness: a task has passed the capacity check for the last free slot
\* while another task has called create.
C24_Witness ==
    \E c, d \in Callers :
        /\ Creating(c)
        /\ len(io_queue_pairs) = MAX_NUMBER_OF_QUEUE_PAIRS - 1
        /\ callers[d].op = "create_io_queue_pair" /\ callers[d].pc = "called"

\* The steps of a task inside a call: those that take a mutex, those that
\* are the return of a request to the Controller, and the others.
Acquires(caller) ==
    \/ lock_driver(caller)
    \/ create_lock(caller)
    \/ delete_remove(caller)
    \/ transfer_lock(caller)

Completes(caller) ==
    \/ create_resolve(caller)
    \/ create_insert(caller)
    \/ delete_teardown(caller)
    \/ transfer_done(caller)

Runs(caller) ==
    \/ create_identify(caller)
    \/ transfer_start(caller)
    \/ allocator_unlock(caller)
    \/ sys_return(caller)

\* The order in which a call passes its points.
Points ==
    <<"called", "entered", "identify", "resolved", "creating", "deleting",
      "locked", "transfer", "returning", "idle">>

PointOf(pc) == CHOOSE i \in DOMAIN Points : Points[i] = pc

Holds(caller) ==
    {m \in {"driver", "registry", "allocations"} :
        \/ m = "driver" /\ driver_mutex = caller
        \/ m = "registry" /\ registry_mutex = caller
        \/ m = "allocations" /\ allocations_mutex = caller}

\* The task takes the mutex in the step.
Takes(caller, m) == m \notin Holds(caller) /\ m \in Holds(caller)'

\* C25: a task takes the driver mutex holding no lock, the registry lock
\* holding the driver mutex alone, and the lock of the allocation table
\* holding the driver mutex, with or without the registry lock; a task that
\* is in no call, or has not entered the driver yet, holds no lock; while no
\* panic has halted the kernel, the task that holds the driver mutex can
\* take a step that needs no further request or callback to start, and a task
\* that waits for the driver mutex can take it once nobody holds it; and every
\* step of a call moves it to a later point, so a call returns after at most
\* nine steps of its own and the callbacks of its requests.
C25_NoDeadlock ==
    /\ [](\A c \in Callers : callers[c].pc \in {"idle", "called"} => Holds(c) = {})
    /\ [](\A c \in Callers : Holds(c) # {} => "driver" \in Holds(c))
    /\ [](\A c \in Callers :
            (~halted /\ callers[c].pc # "idle" /\ driver_mutex \in {0, c})
                => ENABLED (Acquires(c) \/ Completes(c) \/ Runs(c)))
    /\ [][\A c \in Callers :
            /\ Takes(c, "driver") => Holds(c) = {}
            /\ Takes(c, "registry") => Holds(c) = {"driver"}
            /\ Takes(c, "allocations")
                    => Holds(c) \in {{"driver"}, {"driver", "registry"}}
            /\ (callers[c].pc' # callers[c].pc /\ callers[c].pc # "idle")
                    => PointOf(callers[c].pc') > PointOf(callers[c].pc)]_vars

\* C25 witness: a callback holds the lock of the allocation table inside a
\* create that holds the registry lock and the driver mutex, while another
\* task waits for the driver mutex.
C25_Witness ==
    \E c, d \in Callers :
        /\ Creating(c) /\ Holds(c) = {"driver", "registry", "allocations"}
        /\ callers[d].pc = "called"

ResultPointerCalls ==
    {"sys_nvme_get_number_of_namespaces", "sys_nvme_get_max_buffer_size",
     "sys_nvme_get_max_number_of_queue_entries", "sys_nvme_get_size_of_namespace",
     "sys_nvme_create_io_queue_pair"}

\* C26: a system call with a result pointer that is given a null pointer
\* returns 1, whether a driver is registered or not, reaches no driver
\* operation and changes nothing; given a pointer that is not null and no
\* driver it returns 2 and changes nothing; the location behind the pointer
\* is written exactly when the call returns 0, with the value the driver
\* operation returned.
C26_ResultPointer ==
    [][last'.syscall \in ResultPointerCalls =>
        /\ last'.result_is_null =>
                /\ last'.sys = 1 /\ last'.op = "none" /\ last'.ctrl = <<>>
                /\ UNCHANGED <<io_queue_pairs, next_handle, allocations, device_memory,
                               disk, halted, nvme_driver, locks>>
        /\ (~last'.result_is_null /\ nvme_driver # "some") =>
                /\ last'.sys = 2 /\ last'.op = "none" /\ last'.ctrl = <<>>
                /\ UNCHANGED <<io_queue_pairs, next_handle, allocations, device_memory,
                               disk, halted, nvme_driver, locks>>
        /\ (~last'.result_is_null /\ nvme_driver = "some") =>
                (last'.op # "none" /\ last'.sys \notin {1, 2})
        /\ (last'.result # None) <=> (last'.sys = 0)
        /\ last'.sys = 0 => (last'.result = last'.ret /\ last'.res = Ok)]_vars

\* C26 witness: sys_nvme_create_io_queue_pair is given a null pointer before
\* a driver is registered.
C26_Witness ==
    /\ last.syscall = "sys_nvme_create_io_queue_pair"
    /\ last.result_is_null
    /\ nvme_driver # "some"
    /\ last.sys = 1

RECURSIVE concat(_)
concat(buffers) ==
    IF buffers = <<>> THEN <<>> ELSE Head(buffers) \o concat(Tail(buffers))

\* C27: after any writes and flushes, the bytes given to the device followed
\* by the bytes in the buffer are the buffers written, concatenated in call
\* order; the buffer holds at most SERIAL_BUFFER_SIZE bytes and no newline;
\* it is empty after a flush; and no write panics.
C27_ConsoleBuffering ==
    /\ console.device \o console.buffer = concat(console_written)
    /\ Len(console.buffer) <= SERIAL_BUFFER_SIZE
    /\ ~contains(console.buffer, NewLine)
    /\ last.op = "flush" => console.buffer = <<>>
    /\ ~console.panic

\* C27 witness: a write that does not fit any more has made the console
\* write its buffer out and buffer the new bytes.
C27_Witness ==
    /\ last.op = "write"
    /\ Len(console_written) >= 2
    /\ console.device # <<>> /\ ~contains(console.device, NewLine)
    /\ console.buffer # <<>>
    /\ Len(console.device) + Len(console.buffer) > SERIAL_BUFFER_SIZE

====
